---- MODULE Spec2Model ----
(***************************************************************************)
(* Model of the mumble-migrator command (src/unnamed/part_000): it opens a *)
(* mysql and a sqlite connection, checks the table catalogs, copies 13     *)
(* tables one after the other (select, delete, concurrent inserts joined   *)
(* by Promise.all) and closes both connections.                            *)
(*                                                                         *)
(* One step of the model is the code that runs between two awaits of       *)
(* execute(), or the completion of one insert that is in flight.           *)
(***************************************************************************)
EXTENDS Bags, FiniteSets, Integers, Sequences, TLC

(***************************************************************************)
(* Bounds of the model.                                                    *)
(***************************************************************************)
\* longest result of a "select * from T"
MaxRows == 2
\* number of I/O calls that fail although the table exists
MaxFaults == 1
\* expected tables that a catalog of the validator runs may lack
MaxMissing == 1

(***************************************************************************)
(* Program constants.                                                      *)
(***************************************************************************)
\* checkTables: the 13 names, in the order of the array literal
expectedTables ==
    << "acl", "bans", "channel_info", "channel_links", "channels", "config",
       "group_members", "groups", "meta", "servers", "slog", "user_info",
       "users" >>

\* mutant of Order: the try blocks of channels and users exchanged
Order_Swapped ==
    << "servers", "users", "channels", "groups", "acl", "bans",
       "channel_info", "channel_links", "config", "group_members", "meta",
       "slog", "user_info" >>

\* execute: the order of the 13 try blocks
Order ==
    << "servers", "channels", "users", "groups", "acl", "bans",
       "channel_info", "channel_links", "config", "group_members", "meta",
       "slog", "user_info" >>

\* the column list of each insert statement, in the order of its placeholders
Columns ==
    [ acl |-> << "server_id", "channel_id", "priority", "user_id",
                 "group_name", "apply_here", "apply_sub", "grantpriv",
                 "revokepriv" >>,
      bans |-> << "server_id", "base", "mask", "name", "hash", "reason",
                  "start", "duration" >>,
      channel_info |-> << "server_id", "channel_id", "key", "value" >>,
      channel_links |-> << "server_id", "channel_id", "link_id" >>,
      channels |-> << "server_id", "channel_id", "parent_id", "name",
                      "inheritacl" >>,
      config |-> << "server_id", "key", "value" >>,
      group_members |-> << "group_id", "server_id", "user_id", "addit" >>,
      groups |-> << "group_id", "server_id", "name", "channel_id", "inherit",
                    "inheritable" >>,
      meta |-> << "keystring", "value" >>,
      servers |-> << "server_id" >>,
      slog |-> << "server_id", "msg", "msgtime" >>,
      user_info |-> << "server_id", "user_id", "key", "value" >>,
      users |-> << "server_id", "user_id", "name", "pw", "salt",
                   "kdfiterations", "lastchannel", "texture",
                   "last_active" >> ]

\* the values the insert binds: the named fields of the row, positionally
Fields == Columns

Range(s) == { s[i] : i \in 1..Len(s) }

Tables == Range(Order)

IndexOf(s, x) == CHOOSE i \in 1..Len(s) : s[i] = x

(***************************************************************************)
(* Rows.  A row of table t is a record over the columns of t; the row with *)
(* identity id holds a different scalar in every column.                   *)
(***************************************************************************)
MkRow(t, id) ==
    [ c \in Range(Columns[t]) |-> 10 * id + IndexOf(Columns[t], c) ]

\* mutant of Params: every placeholder is bound to the first field
Params_FirstField(t, row) == [ i \in 1..Len(Fields[t]) |-> row[Fields[t][1]] ]

\* the parameter array of the insert: [row.c1, row.c2, ...]
Params(t, row) == [ i \in 1..Len(Fields[t]) |-> row[Fields[t][i]] ]

\* the row that "insert into t(c1, c2, ...) values(?, ?, ...)" stores
InsertedRow(t, params) ==
    [ c \in Range(Columns[t]) |-> params[IndexOf(Columns[t], c)] ]

VARIABLES
    pc,            \* position of execute()
    idx,           \* index in Order of the table migrator being run
    mysql,         \* this.mysql : "unopened", "absent", "open", "closed"
    sqlite,        \* this.sqlite: "unopened", "absent", "open", "closed"
    mysqlCatalog,  \* names "show tables" lists
    sqliteCatalog, \* names sqlite_master lists
    mysqlDb,       \* source: table -> sequence of rows, as select returns
    sqliteDb,      \* destination: table -> bag of rows
    sqliteDb0,     \* the destination before the run
    rows,          \* the local result of the select of the running migrator
    inflight,      \* inserts issued and not yet completed
    status,        \* table -> "idle", "running", "done", "error"
    invoked,       \* the table migrators called so far, in call order
    issued,        \* queries issued on the tables: <<kind, table>>
    returned,      \* selects and deletes that returned: <<kind, table>>
    checkResult,   \* "none" before checkTables returns, then "true" or "false"
    report,        \* names checkTables reported missing, per side
    catalogError,  \* checkTables logged "Error determining exising tables"
    closeCalls,    \* number of close() calls per connection
    goodbye,       \* "Good bye" was logged
    thrown,        \* execute() rejected
    failedIO,      \* tables of which a select, delete or insert rejected
    faults,        \* I/O calls that failed so far although the table exists
    prior          \* "none" in a first run, "clean" in the run after a clean run

vars ==
    << pc, idx, mysql, sqlite, mysqlCatalog, sqliteCatalog, mysqlDb, sqliteDb,
       sqliteDb0, rows, inflight, status, invoked, issued, checkResult,
       report, catalogError, closeCalls, goodbye, thrown, failedIO, faults,
       returned, prior >>

(***************************************************************************)
(* Databases the run can start from.                                       *)
(***************************************************************************)
Expected == Range(expectedTables)

\* tables of the databases that the command does not know
ExtraTables == {"extra"}

\* the catalogs of the runs: complete with an unknown table, one expected
\* table missing, an empty database
RunCatalogs == { Expected \cup ExtraTables, Expected \ {"users"}, {} }

\* the catalogs of the validator runs: up to MaxMissing expected tables are
\* missing, with or without the unknown tables
CheckCatalogs ==
    { (Expected \ m) \cup x :
        m \in { s \in SUBSET Expected : Cardinality(s) <= MaxMissing },
        x \in SUBSET ExtraTables }

\* the sample source: table t holds between 0 and MaxRows rows, by its place
\* in Order; the tables at an even place hold equal rows, the others
\* different rows
SourceCount(t) == IndexOf(Order, t) % (MaxRows + 1)

SourceIds(t) ==
    [ i \in 1..SourceCount(t) |-> IF IndexOf(Order, t) % 2 = 0 THEN 1 ELSE i ]

SourceRows(t) == [ i \in 1..SourceCount(t) |-> MkRow(t, SourceIds(t)[i]) ]

\* stale rows of the destination: one equal to a source row, one unknown to
\* the source
StaleRows(t) == SetToBag({ MkRow(t, 1), MkRow(t, MaxRows + 1) })

InitDatabases(catalogs) ==
    /\ mysqlCatalog \in catalogs
    /\ sqliteCatalog \in catalogs
    /\ mysqlDb = [ t \in Tables |->
                     IF t \in mysqlCatalog THEN SourceRows(t) ELSE << >> ]
    /\ \E stale \in BOOLEAN :
         sqliteDb = [ t \in Tables |->
                        IF stale /\ t \in sqliteCatalog
                        THEN StaleRows(t) ELSE EmptyBag ]
    /\ sqliteDb0 = sqliteDb

InitRun ==
    /\ idx = 0
    /\ rows = << >>
    /\ inflight = {}
    /\ status = [ t \in Tables |-> "idle" ]
    /\ invoked = << >>
    /\ issued = {}
    /\ returned = {}
    /\ checkResult = "none"
    /\ report = [ mysql |-> << >>, sqlite |-> << >> ]
    /\ catalogError = FALSE
    /\ closeCalls = [ mysql |-> 0, sqlite |-> 0 ]
    /\ goodbye = FALSE
    /\ thrown = FALSE
    /\ failedIO = {}
    /\ faults = 0

\* the state when execute() is called
Init ==
    /\ pc = "connectMysql"
    /\ mysql = "unopened"
    /\ sqlite = "unopened"
    /\ InitDatabases(RunCatalogs)
    /\ InitRun
    /\ prior = "none"

(***************************************************************************)
(* I/O outcomes.  A call may fail for a reason the model does not hold     *)
(* (network, constraint, disk) at most MaxFaults times in a run; a query   *)
(* on a table the database lacks always fails.                             *)
(***************************************************************************)
MayFail == faults < MaxFaults

(***************************************************************************)
(* Connection Provisioner: connectMysql, connectSqlite.                    *)
(***************************************************************************)
\* the value the function returns: the connection, or undefined after catch
Connected(ok) == IF ok THEN "open" ELSE "absent"

\* mutant of BothConnected: only this.mysql is tested
BothConnected_SourceOnly(m, s) == ~ (m = "absent")

\* execute, line 277: the negation of (!this.mysql || !this.sqlite)
BothConnected(m, s) == ~ (m = "absent" \/ s = "absent")

ConnectMysql ==
    /\ pc = "connectMysql"
    /\ \E ok \in BOOLEAN : mysql' = Connected(ok)
    /\ pc' = "connectSqlite"
    /\ UNCHANGED << idx, sqlite, mysqlCatalog, sqliteCatalog, mysqlDb,
                    sqliteDb, sqliteDb0, rows, inflight, status, invoked,
                    issued, checkResult, report, catalogError, closeCalls,
                    goodbye, thrown, faults,
                    failedIO, returned, prior >>

ConnectSqlite ==
    /\ pc = "connectSqlite"
    /\ \E ok \in BOOLEAN : sqlite' = Connected(ok)
    /\ pc' = IF BothConnected(mysql, sqlite') THEN "checkTables"
             ELSE "terminated"
    /\ UNCHANGED << idx, mysql, mysqlCatalog, sqliteCatalog, mysqlDb,
                    sqliteDb, sqliteDb0, rows, inflight, status, invoked,
                    issued, checkResult, report, catalogError, closeCalls,
                    goodbye, thrown, faults,
                    failedIO, returned, prior >>

(***************************************************************************)
(* Schema Validator: checkTables.                                          *)
(***************************************************************************)
\* mutant of Without: the filter keeps the listed names instead of dropping them
Without_Kept(xs, list) == SelectSeq(list, LAMBDA e : e \in xs)

\* ramda without(xs, list): the elements of list that are not in xs
Without(xs, list) == SelectSeq(list, LAMBDA e : e \notin xs)

\* mutant of CheckCatalog: no return after the mysql report, so that the
\* sqlite report is logged too
CheckCatalog_BothSides(mysqlTables, sqliteTables) ==
    LET missingMysqlTables == Without(mysqlTables, expectedTables)
        missingSqliteTables == Without(sqliteTables, expectedTables)
    IN  [ result |-> Len(missingMysqlTables) = 0 /\ Len(missingSqliteTables) = 0,
          report |-> [ mysql |-> missingMysqlTables,
                       sqlite |-> missingSqliteTables ] ]

\* the outcome of checkTables when both catalog queries returned
CheckCatalog(mysqlTables, sqliteTables) ==
    LET missingMysqlTables == Without(mysqlTables, expectedTables)
        missingSqliteTables == Without(sqliteTables, expectedTables)
    IN  IF Len(missingMysqlTables) > 0
        THEN [ result |-> FALSE,
               report |-> [ mysql |-> missingMysqlTables, sqlite |-> << >> ] ]
        ELSE IF Len(missingSqliteTables) > 0
        THEN [ result |-> FALSE,
               report |-> [ mysql |-> << >>, sqlite |-> missingSqliteTables ] ]
        ELSE [ result |-> TRUE,
               report |-> [ mysql |-> << >>, sqlite |-> << >> ] ]

\* the boolean checkTables returns, as execute sees it
Returned(b) == IF b THEN "true" ELSE "false"

\* mutant of AfterCheck: "Databases not ok. Terminating." does terminate
AfterCheck_Stop(ok) == IF ok THEN "read" ELSE "terminated"

\* execute, lines 281-285: the step that follows checkTables
AfterCheck(ok) == "read"

\* both catalog queries return
CheckTables ==
    /\ pc = "checkTables"
    /\ LET out == CheckCatalog(mysqlCatalog, sqliteCatalog)
       IN  /\ checkResult' = Returned(out.result)
           /\ report' = out.report
           /\ pc' = AfterCheck(out.result)
    /\ idx' = 1
    /\ UNCHANGED << mysql, sqlite, mysqlCatalog, sqliteCatalog, mysqlDb,
                    sqliteDb, sqliteDb0, rows, inflight, status, invoked,
                    issued, catalogError, closeCalls, goodbye, thrown,
                    faults,
                    failedIO, returned, prior >>

\* one of the two catalog queries rejects: the catch block returns false
CheckTablesError ==
    /\ pc = "checkTables"
    /\ MayFail
    /\ faults' = faults + 1
    /\ catalogError' = TRUE
    /\ checkResult' = Returned(FALSE)
    /\ pc' = AfterCheck(FALSE)
    /\ idx' = 1
    /\ UNCHANGED << mysql, sqlite, mysqlCatalog, sqliteCatalog, mysqlDb,
                    sqliteDb, sqliteDb0, rows, inflight, status, invoked,
                    issued, report, closeCalls, goodbye, thrown,
                    failedIO, returned, prior >>

(***************************************************************************)
(* Table Migrator: migrateServers .. migrateUserInfos, one pattern.        *)
(***************************************************************************)
\* mutant of DeleteFrom: the delete is left out
DeleteFrom_Skipped(db, t) == db

\* "delete from t"
DeleteFrom(db, t) == [ db EXCEPT ![t] = EmptyBag ]

\* mutant of InsertInto: the statement names the table of the first migrator
InsertInto_WrongTable(db, t, params) ==
    [ db EXCEPT ![Order[1]] = @ (+) SetToBag({InsertedRow(t, params)}) ]

\* "insert into t(...) values(...)" with the bound parameters
InsertInto(db, t, params) ==
    [ db EXCEPT ![t] = @ (+) SetToBag({InsertedRow(t, params)}) ]

\* rs.map(async r => { await this.sqlite.query(insert, [...]) }): one insert
\* per element of the result, all issued before the first one completes
IssueInserts(t, rs) ==
    { [ table |-> t, i |-> i, params |-> Params(t, rs[i]) ] : i \in 1..Len(rs) }

\* the inserts Promise.all of the running migrator still waits for
Pending(ops, t) == { op \in ops : op.table = t }

\* mutant of AfterTable: the two close statements exchanged
AfterTable_SourceClosedFirst(i, outcome) ==
    IF i < Len(Order) THEN [ pc |-> "read", idx |-> i + 1 ]
    ELSE [ pc |-> "closeMysql", idx |-> i + 1 ]

\* mutant of AfterTable: one try/catch around all migrators, an error skips
\* the migrators that follow
AfterTable_AbortOnError(i, outcome) ==
    IF i < Len(Order) /\ outcome # "error"
    THEN [ pc |-> "read", idx |-> i + 1 ]
    ELSE [ pc |-> "closeSqlite", idx |-> Len(Order) + 1 ]

\* execute: the statement after the try/catch around the i-th migrator
AfterTable(i, outcome) ==
    IF i < Len(Order) THEN [ pc |-> "read", idx |-> i + 1 ]
    ELSE [ pc |-> "closeSqlite", idx |-> i + 1 ]

\* the migrator of table Order[idx] returns ("done") or throws ("error")
\* into the try/catch of execute, which goes on with the next statement
Return(outcome) ==
    /\ status' = [ status EXCEPT ![Order[idx]] = outcome ]
    /\ pc' = AfterTable(idx, outcome).pc
    /\ idx' = AfterTable(idx, outcome).idx
    /\ rows' = << >>

\* the select of table t succeeds
SelectOk(t) == t \in mysqlCatalog

\* the delete of table t succeeds
DeleteOk(t) == t \in sqliteCatalog

\* const rs = await this.mysql.query("select * from t") returns
Read ==
    /\ pc = "read"
    /\ SelectOk(Order[idx])
    /\ invoked' = Append(invoked, Order[idx])
    /\ issued' = issued \cup { << "select", Order[idx] >> }
    /\ returned' = returned \cup { << "select", Order[idx] >> }
    /\ status' = [ status EXCEPT ![Order[idx]] = "running" ]
    /\ rows' = mysqlDb[Order[idx]]
    /\ pc' = "clear"
    /\ UNCHANGED << idx, mysql, sqlite, mysqlCatalog, sqliteCatalog, mysqlDb,
                    sqliteDb, sqliteDb0, inflight, checkResult, report,
                    catalogError, closeCalls, goodbye, thrown, faults,
                    failedIO, prior >>

\* the select rejects: the migrator throws
ReadError ==
    /\ pc = "read"
    /\ \/ ~ SelectOk(Order[idx]) /\ faults' = faults
       \/ SelectOk(Order[idx]) /\ MayFail /\ faults' = faults + 1
    /\ invoked' = Append(invoked, Order[idx])
    /\ issued' = issued \cup { << "select", Order[idx] >> }
    /\ Return("error")
    /\ failedIO' = failedIO \cup {Order[idx]}
    /\ UNCHANGED << mysql, sqlite, mysqlCatalog, sqliteCatalog, mysqlDb,
                    sqliteDb, sqliteDb0, inflight, checkResult, report,
                    catalogError, closeCalls, goodbye, thrown, returned, prior >>

\* mutant of Clear: the delete is issued only for a result that has rows
Clear_OnlyIfRows ==
    /\ pc = "clear"
    /\ IF rows = << >>
       THEN /\ Return("done")
            /\ UNCHANGED << sqliteDb, inflight, issued, returned >>
       ELSE /\ DeleteOk(Order[idx])
            /\ sqliteDb' = DeleteFrom(sqliteDb, Order[idx])
            /\ inflight' = inflight \cup IssueInserts(Order[idx], rows)
            /\ issued' = issued \cup { << "delete", Order[idx] >> }
                                \cup { << "insert", Order[idx] >> }
            /\ returned' = returned \cup { << "delete", Order[idx] >> }
            /\ pc' = "join"
            /\ UNCHANGED << idx, rows, status >>
    /\ UNCHANGED << mysql, sqlite, mysqlCatalog, sqliteCatalog, mysqlDb,
                    sqliteDb0, invoked, checkResult, report, catalogError,
                    closeCalls, goodbye, thrown, faults, failedIO, prior >>

\* await this.sqlite.query("delete from t") returns, and the inserts of all
\* rows are issued; Promise.all of no insert resolves at once
Clear ==
    /\ pc = "clear"
    /\ DeleteOk(Order[idx])
    /\ sqliteDb' = DeleteFrom(sqliteDb, Order[idx])
    /\ inflight' = inflight \cup IssueInserts(Order[idx], rows)
    /\ issued' = issued \cup { << "delete", Order[idx] >> }
                        \cup { << "insert", op.table >> :
                                 op \in IssueInserts(Order[idx], rows) }
    /\ returned' = returned \cup { << "delete", Order[idx] >> }
    /\ IF Pending(inflight', Order[idx]) = {}
       THEN Return("done")
       ELSE /\ pc' = "join"
            /\ UNCHANGED << idx, rows, status >>
    /\ UNCHANGED << mysql, sqlite, mysqlCatalog, sqliteCatalog, mysqlDb,
                    sqliteDb0, invoked, checkResult, report, catalogError,
                    closeCalls, goodbye, thrown, faults,
                    failedIO, prior >>

\* mutant of ClearError: the rejected delete is caught inside the migrator,
\* which goes on to issue the inserts
ClearError_Swallowed ==
    /\ pc = "clear"
    /\ \/ ~ DeleteOk(Order[idx]) /\ faults' = faults
       \/ DeleteOk(Order[idx]) /\ MayFail /\ faults' = faults + 1
    /\ inflight' = inflight \cup IssueInserts(Order[idx], rows)
    /\ issued' = issued \cup { << "delete", Order[idx] >> }
                        \cup { << "insert", op.table >> :
                                 op \in IssueInserts(Order[idx], rows) }
    /\ IF Pending(inflight', Order[idx]) = {}
       THEN Return("done")
       ELSE /\ pc' = "join"
            /\ UNCHANGED << idx, rows, status >>
    /\ failedIO' = failedIO \cup {Order[idx]}
    /\ UNCHANGED << mysql, sqlite, mysqlCatalog, sqliteCatalog, mysqlDb,
                    sqliteDb, sqliteDb0, invoked, checkResult, report,
                    catalogError, closeCalls, goodbye, thrown, returned,
                    prior >>

\* the delete rejects: the migrator throws and no insert is issued
ClearError ==
    /\ pc = "clear"
    /\ \/ ~ DeleteOk(Order[idx]) /\ faults' = faults
       \/ DeleteOk(Order[idx]) /\ MayFail /\ faults' = faults + 1
    /\ issued' = issued \cup { << "delete", Order[idx] >> }
    /\ Return("error")
    /\ failedIO' = failedIO \cup {Order[idx]}
    /\ UNCHANGED << mysql, sqlite, mysqlCatalog, sqliteCatalog, mysqlDb,
                    sqliteDb, sqliteDb0, inflight, invoked, checkResult,
                    report, catalogError, closeCalls, goodbye, thrown,
                    returned, prior >>

\* the insert op belongs to the Promise.all the migrator is waiting on
Joined(op) == pc = "join" /\ op.table = Order[idx]

\* one insert in flight completes; the last insert of the running migrator
\* resolves its Promise.all
InsertOk ==
    \E op \in inflight :
        /\ sqlite = "open"
        /\ sqliteDb' = InsertInto(sqliteDb, op.table, op.params)
        /\ inflight' = inflight \ {op}
        /\ IF Joined(op) /\ Pending(inflight', op.table) = {}
           THEN Return("done")
           ELSE UNCHANGED << pc, idx, rows, status >>
        /\ UNCHANGED << mysql, sqlite, mysqlCatalog, sqliteCatalog, mysqlDb,
                        sqliteDb0, invoked, issued, checkResult, report,
                        catalogError, closeCalls, goodbye, thrown, faults,
                    failedIO, returned, prior >>

\* one insert in flight rejects; Promise.all of the running migrator rejects
\* at its first rejected insert, the other inserts stay in flight
InsertError ==
    \E op \in inflight :
        /\ \/ sqlite # "open" /\ faults' = faults
           \/ sqlite = "open" /\ MayFail /\ faults' = faults + 1
        /\ inflight' = inflight \ {op}
        /\ IF Joined(op)
           THEN Return("error")
           ELSE UNCHANGED << pc, idx, rows, status >>
        /\ failedIO' = failedIO \cup {op.table}
        /\ UNCHANGED << mysql, sqlite, mysqlCatalog, sqliteCatalog, mysqlDb,
                        sqliteDb, sqliteDb0, invoked, issued, checkResult,
                        report, catalogError, closeCalls, goodbye, thrown,
                    returned, prior >>

(***************************************************************************)
(* Closing: execute, lines 375-379.                                        *)
(***************************************************************************)
\* await this.sqlite.close() returns
CloseSqlite ==
    /\ pc = "closeSqlite"
    /\ closeCalls' = [ closeCalls EXCEPT !.sqlite = @ + 1 ]
    /\ sqlite' = "closed"
    /\ pc' = "closeMysql"
    /\ UNCHANGED << idx, mysql, mysqlCatalog, sqliteCatalog, mysqlDb,
                    sqliteDb, sqliteDb0, rows, inflight, status, invoked,
                    issued, checkResult, report, catalogError, goodbye,
                    thrown, faults,
                    failedIO, returned, prior >>

\* this.sqlite.close() rejects: nothing catches it, execute rejects
CloseSqliteError ==
    /\ pc = "closeSqlite"
    /\ MayFail
    /\ faults' = faults + 1
    /\ closeCalls' = [ closeCalls EXCEPT !.sqlite = @ + 1 ]
    /\ thrown' = TRUE
    /\ pc' = "terminated"
    /\ UNCHANGED << idx, mysql, sqlite, mysqlCatalog, sqliteCatalog, mysqlDb,
                    sqliteDb, sqliteDb0, rows, inflight, status, invoked,
                    issued, checkResult, report, catalogError, goodbye,
                    failedIO, returned, prior >>

\* await this.mysql.close() returns, "Good bye" is logged, execute returns
CloseMysql ==
    /\ pc = "closeMysql"
    /\ closeCalls' = [ closeCalls EXCEPT !.mysql = @ + 1 ]
    /\ mysql' = "closed"
    /\ goodbye' = TRUE
    /\ pc' = "terminated"
    /\ UNCHANGED << idx, sqlite, mysqlCatalog, sqliteCatalog, mysqlDb,
                    sqliteDb, sqliteDb0, rows, inflight, status, invoked,
                    issued, checkResult, report, catalogError, thrown,
                    faults,
                    failedIO, returned, prior >>

\* this.mysql.close() rejects: execute rejects before "Good bye"
CloseMysqlError ==
    /\ pc = "closeMysql"
    /\ MayFail
    /\ faults' = faults + 1
    /\ closeCalls' = [ closeCalls EXCEPT !.mysql = @ + 1 ]
    /\ thrown' = TRUE
    /\ pc' = "terminated"
    /\ UNCHANGED << idx, mysql, sqlite, mysqlCatalog, sqliteCatalog, mysqlDb,
                    sqliteDb, sqliteDb0, rows, inflight, status, invoked,
                    issued, checkResult, report, catalogError, goodbye,
                    failedIO, returned, prior >>

Next ==
    \/ ConnectMysql
    \/ ConnectSqlite
    \/ CheckTables
    \/ CheckTablesError
    \/ Read
    \/ ReadError
    \/ Clear
    \/ ClearError
    \/ InsertOk
    \/ InsertError
    \/ CloseSqlite
    \/ CloseSqliteError
    \/ CloseMysql
    \/ CloseMysqlError

Spec == Init /\ [][Next]_vars

(***************************************************************************)
(* The validator alone: checkTables applied to every pair of catalogs of   *)
(* CheckCatalogs, both connections being open.                             *)
(***************************************************************************)
InitCheck ==
    /\ pc = "checkTables"
    /\ mysql = "open"
    /\ sqlite = "open"
    /\ InitDatabases(CheckCatalogs)
    /\ InitRun
    /\ prior = "none"

NextCheck ==
    \/ CheckTables
    \/ CheckTablesError

SpecCheck == InitCheck /\ [][NextCheck]_vars

(***************************************************************************)
(* The command run a second time on the same databases: src/index.ts       *)
(* starts execute() again once the process of the first run has ended.     *)
(***************************************************************************)
\* no I/O call of the run failed and execute returned
CleanRun ==
    /\ goodbye /\ ~ thrown
    /\ failedIO = {} /\ ~ catalogError /\ faults = 0

\* the process of a run without failure has ended (execute returned, no I/O
\* pending) and the command is started once more: new connections, new run
\* state, the databases as the first run left them
Rerun ==
    /\ pc = "terminated"
    /\ inflight = {}
    /\ prior = "none"
    /\ CleanRun
    /\ prior' = "clean"
    /\ pc' = "connectMysql"
    /\ mysql' = "unopened"
    /\ sqlite' = "unopened"
    /\ sqliteDb0' = sqliteDb
    /\ idx' = 0
    /\ rows' = << >>
    /\ inflight' = {}
    /\ status' = [ t \in Tables |-> "idle" ]
    /\ invoked' = << >>
    /\ issued' = {}
    /\ returned' = {}
    /\ checkResult' = "none"
    /\ report' = [ mysql |-> << >>, sqlite |-> << >> ]
    /\ catalogError' = FALSE
    /\ closeCalls' = [ mysql |-> 0, sqlite |-> 0 ]
    /\ goodbye' = FALSE
    /\ thrown' = FALSE
    /\ failedIO' = {}
    /\ faults' = 0
    /\ UNCHANGED << mysqlCatalog, sqliteCatalog, mysqlDb, sqliteDb >>

NextTwice ==
    \/ Next
    \/ Rerun

SpecTwice == Init /\ [][NextTwice]_vars

(***************************************************************************)
(* Properties.                                                             *)
(***************************************************************************)
\* the table order the specification states
ClaimedOrder ==
    << "servers", "channels", "users", "groups", "acl", "bans",
       "channel_info", "channel_links", "config", "group_members", "meta",
       "slog", "user_info" >>

ClaimedTables == Range(ClaimedOrder)

\* both connections were opened
BothOpened == mysql \in {"open", "closed"} /\ sqlite \in {"open", "closed"}

\* execute is past the last table migrator
PastMigration == pc \in {"closeSqlite", "closeMysql", "terminated"}

\* number of occurrences of row r in the select result s
Occurrences(s, r) == Cardinality({ i \in DOMAIN s : s[i] = r })

\* the destination table holds each row as often as the select returned it
SameRows(bag, s) ==
    \A r \in BagToSet(bag) \cup Range(s) : CopiesIn(r, bag) = Occurrences(s, r)

\* C1: whenever the migrator of a table has completed without error, the
\* destination table holds exactly the multiset of rows the source read
\* returned: every source row once per occurrence, no stale row.
C1_FullReplace ==
    \A t \in Tables : status[t] = "done" => SameRows(sqliteDb[t], mysqlDb[t])

\* C1 witness: one migrator completed on an empty source table that had stale
\* destination rows, another on a table of several source rows and stale rows.
C1_Witness ==
    \E t, u \in Tables :
        /\ status[t] = "done" /\ status[u] = "done"
        /\ Len(mysqlDb[t]) = 0 /\ sqliteDb0[t] # EmptyBag
        /\ Len(mysqlDb[u]) >= 2 /\ sqliteDb0[u] # EmptyBag

\* C2: when both connections opened and execute is past the migrators, every
\* table was invoked, and every table none of whose own I/O calls failed is
\* done with its destination equal to its source rows, whatever other table
\* failed.
C2_FaultIsolation ==
    (BothOpened /\ PastMigration) =>
        \A u \in ClaimedTables :
            /\ u \in Range(invoked)
            /\ u \notin failedIO =>
                 /\ status[u] = "done"
                 /\ SameRows(sqliteDb[u], mysqlDb[u])

\* C2 witness: the run ended, a table failed in its write phase, and a table
\* migrated after it is done with rows copied.
C2_Witness ==
    /\ pc = "terminated"
    /\ \E t, u \in Tables :
        /\ IndexOf(Order, t) < IndexOf(Order, u)
        /\ status[t] = "error" /\ << "insert", t >> \in issued
        /\ status[u] = "done" /\ Len(mysqlDb[u]) > 0

\* C3: if a connection failed to open, the validator has not run, no select,
\* delete or insert was issued, the destination is untouched and the run is
\* terminated once both opens were attempted; the destination open is
\* attempted also after the source open failed.
C3_NoWorkWithoutConnections ==
    (mysql = "absent" \/ sqlite = "absent") =>
        /\ checkResult = "none" /\ ~ catalogError
        /\ issued = {} /\ invoked = << >> /\ inflight = {}
        /\ sqliteDb = sqliteDb0
        /\ pc \in {"connectSqlite", "terminated"}
        /\ pc = "terminated" => sqlite \in {"absent", "open"}

\* C3 witness: the source failed to open, the destination opened, the run is
\* terminated.
C3_Witness == pc = "terminated" /\ mysql = "absent" /\ sqlite = "open"

\* C4: at the end of a run in which both connections opened, each connection
\* has been closed exactly once.
C4_ClosedExactlyOnce ==
    (pc = "terminated" /\ BothOpened) =>
        /\ closeCalls.sqlite = 1 /\ sqlite = "closed"
        /\ closeCalls.mysql = 1 /\ mysql = "closed"

\* C5: at the end of every run, no connection that was opened is left open.
C5_NoConnectionLeftOpen ==
    pc = "terminated" => (mysql # "open" /\ sqlite # "open")

\* C6: the migrators are invoked in the stated order, each at most once and
\* all of them once execute is past the migrators; a migrator is invoked, and
\* a query on its table issued, only after every migrator before it has
\* returned or failed.
C6_FixedSequentialOrder ==
    /\ Len(invoked) <= Len(ClaimedOrder)
    /\ \A i \in 1..Len(invoked) :
        /\ invoked[i] = ClaimedOrder[i]
        /\ i < Len(invoked) => status[invoked[i]] \in {"done", "error"}
    /\ \A q \in issued : q[2] \in Range(invoked)
    /\ (BothOpened /\ PastMigration) =>
         /\ invoked = ClaimedOrder
         /\ \A t \in ClaimedTables : status[t] \in {"done", "error"}

\* C6 witness: a run that invoked the 13 migrators ended with "Good bye".
C6_Witness == pc = "terminated" /\ goodbye /\ Len(invoked) = 13

\* C7: checkTables returns true exactly when no catalog query failed and
\* both catalogs hold the 13 expected names; a failed catalog query gives
\* false and no rejection.
C7_CheckTablesResult ==
    checkResult # "none" =>
        /\ checkResult = "true" <=>
             /\ ~ catalogError
             /\ ClaimedTables \subseteq mysqlCatalog
             /\ ClaimedTables \subseteq sqliteCatalog
        /\ ~ thrown /\ pc # "terminated"

\* C7 witness: checkTables returned true with an unknown table on both sides.
C7_Witness ==
    /\ checkResult = "true"
    /\ mysqlCatalog \ ClaimedTables # {}
    /\ sqliteCatalog \ ClaimedTables # {}

\* C8 as stated: after checkTables compared the catalogs, each side is
\* reported exactly its own missing names, the two sides independently.
C8_EachSideReported ==
    (checkResult # "none" /\ ~ catalogError) =>
        /\ Range(report.mysql) = ClaimedTables \ mysqlCatalog
        /\ Range(report.sqlite) = ClaimedTables \ sqliteCatalog

\* C8 amended: the source side is reported exactly its missing names; the
\* destination side is reported exactly its missing names when the source
\* lacks none, and is not reported when the source lacks a name.
C8_FirstSideReported ==
    (checkResult # "none" /\ ~ catalogError) =>
        /\ Range(report.mysql) = ClaimedTables \ mysqlCatalog
        /\ Range(report.sqlite) =
             IF ClaimedTables \ mysqlCatalog = {}
             THEN ClaimedTables \ sqliteCatalog
             ELSE {}

\* C8 witness: both sides lack a name, not the same one; checkTables returned
\* false and reported the source side.
C8_Witness ==
    /\ checkResult = "false"
    /\ report.mysql # << >>
    /\ ClaimedTables \ sqliteCatalog # {}
    /\ ClaimedTables \ sqliteCatalog # ClaimedTables \ mysqlCatalog

\* C9: after checkTables returned false, execute goes on: once it is past
\* the migrators all 13 were invoked in the stated order, the destination
\* close is called, and when no close rejects both connections are closed
\* and "Good bye" is logged.
C9_ValidationFailureContinues ==
    checkResult = "false" =>
        /\ pc \in {"read", "clear", "join"} \/ PastMigration
        /\ PastMigration => invoked = ClaimedOrder
        /\ pc = "terminated" => closeCalls.sqlite = 1
        /\ (pc = "terminated" /\ ~ thrown) =>
             /\ sqlite = "closed" /\ mysql = "closed" /\ goodbye

\* C9 witness: checkTables returned false for a missing table, and the run
\* ended with "Good bye" having copied the rows of a table.
C9_Witness ==
    /\ checkResult = "false" /\ ~ catalogError
    /\ pc = "terminated" /\ goodbye
    /\ \E t \in Tables : status[t] = "done" /\ Len(mysqlDb[t]) > 0

\* C10: every run in which both connections opened ends with "Good bye"
\* logged.
C10_EndsWithGoodBye == (pc = "terminated" /\ BothOpened) => goodbye

\* C11: execute never rejects, whichever I/O call fails.
C11_NoErrorSurfaces == ~ thrown

\* C12: every insert in flight was issued by the migrator that is running
\* and waiting on it: none is left in flight when the next migrator starts
\* or when the connections are closed, also after a failed insert.
C12_FanIn == \A op \in inflight : pc = "join" /\ op.table = Order[idx]

\* C13 as stated: every migrator that was invoked and is over has issued the
\* delete, also when its source read failed.
C13_DeleteUnconditional ==
    \A t \in Tables :
        status[t] \in {"done", "error"} => << "delete", t >> \in issued

\* C13 amended: a migrator issues the delete as soon as its select has
\* returned, with rows or with none; a migrator whose select failed issues
\* no delete.
C13_DeleteAfterEveryRead ==
    \A t \in Tables :
        /\ (<< "select", t >> \in returned /\ ~ (pc = "clear" /\ Order[idx] = t))
             => << "delete", t >> \in issued
        /\ << "select", t >> \notin returned => << "delete", t >> \notin issued

\* C13 witness: a table of no source row was read and its stale destination
\* rows deleted; the select of another table failed and its stale rows are
\* still there, no delete issued.
C13_Witness ==
    \E t, u \in Tables :
        /\ << "select", t >> \in returned /\ Len(mysqlDb[t]) = 0
        /\ << "delete", t >> \in returned
        /\ sqliteDb0[t] # EmptyBag /\ sqliteDb[t] = EmptyBag
        /\ status[u] = "error" /\ << "select", u >> \notin returned
        /\ << "delete", u >> \notin issued
        /\ sqliteDb0[u] # EmptyBag /\ sqliteDb[u] = sqliteDb0[u]

\* the destination table holds only rows of the select result, none more
\* often than the result does
SubRows(bag, s) ==
    \A r \in BagToSet(bag) : CopiesIn(r, bag) <= Occurrences(s, r)

\* C14: once the delete of a table has succeeded, the table holds a
\* sub-multiset of the rows read from the source and never loses a row
\* again (no rollback, no stale row restored); a table with a failed I/O
\* call is a failed migration step.
C14_NoRollback ==
    /\ [](\A t \in Tables :
            /\ << "delete", t >> \in returned
                 => SubRows(sqliteDb[t], mysqlDb[t])
            /\ t \in failedIO => status[t] = "error")
    /\ [][\A t \in Tables :
            << "delete", t >> \in returned =>
                \A r \in BagToSet(sqliteDb[t]) :
                    CopiesIn(r, sqliteDb'[t]) >= CopiesIn(r, sqliteDb[t])]_vars

\* C14 witness: the run ended; a table that had stale rows failed in its
\* write phase and holds some, not all, of its source rows.
C14_Witness ==
    /\ pc = "terminated"
    /\ \E t \in Tables :
        /\ status[t] = "error" /\ << "delete", t >> \in returned
        /\ sqliteDb0[t] # EmptyBag
        /\ sqliteDb[t] # EmptyBag
        /\ ~ SameRows(sqliteDb[t], mysqlDb[t])

\* C15: a delete is issued only after the select of its table returned, an
\* insert only after the delete of its table returned (so never after a
\* failed delete), and when the delete returns no insert of the table has
\* been issued yet.
C15_ReadClearWrite ==
    /\ [](\A t \in Tables :
            /\ << "delete", t >> \in issued => << "select", t >> \in returned
            /\ << "insert", t >> \in issued => << "delete", t >> \in returned
            /\ Pending(inflight, t) # {} => << "delete", t >> \in returned)
    /\ [][\A t \in Tables :
            (<< "delete", t >> \in returned' /\ << "delete", t >> \notin returned)
                => << "insert", t >> \notin issued]_vars

\* C15 witness: one table was read, cleared and written; the delete of
\* another table that has source rows failed and no insert was issued for it.
C15_Witness ==
    \E t, u \in Tables :
        /\ status[t] = "done" /\ << "insert", t >> \in issued
        /\ status[u] = "error" /\ << "select", u >> \in returned
        /\ Len(mysqlDb[u]) > 0
        /\ << "delete", u >> \in issued /\ << "delete", u >> \notin returned
        /\ << "insert", u >> \notin issued

\* C16: the source is closed only after the destination, no close is called
\* before every migrator up to user_info has returned or failed, and no
\* query is issued on a closed connection.
C16_ClosingOrder ==
    /\ [](/\ mysql = "closed" => sqlite = "closed"
          /\ closeCalls.mysql > 0 => closeCalls.sqlite > 0
          /\ closeCalls.sqlite > 0 =>
               \A t \in ClaimedTables : status[t] \in {"done", "error"})
    /\ [][\A q \in issued' \ issued :
            /\ q[1] = "select" => mysql = "open" /\ closeCalls.mysql = 0
            /\ q[1] \in {"delete", "insert"} =>
                 sqlite = "open" /\ closeCalls.sqlite = 0]_vars

\* C16 witness: both connections are closed after a run in which a table
\* migration failed.
C16_Witness ==
    /\ pc = "terminated" /\ sqlite = "closed" /\ mysql = "closed"
    /\ \E t \in Tables : status[t] = "error"

\* C17: a step changes a destination table only if it is the delete of the
\* running migrator of that table or the completion of an insert that the
\* migrator of that table issued; no step changes the source.
C17_Frame ==
    [][/\ mysqlDb' = mysqlDb
       /\ mysqlCatalog' = mysqlCatalog
       /\ \A t \in Tables :
            sqliteDb'[t] # sqliteDb[t] =>
                \/ pc = "clear" /\ Order[idx] = t
                \/ \E op \in inflight \ inflight' : op.table = t]_vars

\* C17 witness: a table failed in its write phase, all its inserts have
\* completed and some of its rows are stored, while a table that failed
\* before its delete still holds its stale rows.
C17_Witness ==
    \E t, u \in Tables :
        /\ t # u
        /\ status[t] = "error" /\ << "insert", t >> \in issued
        /\ Pending(inflight, t) = {} /\ sqliteDb[t] # EmptyBag
        /\ status[u] = "error" /\ << "delete", u >> \notin returned
        /\ sqliteDb0[u] # EmptyBag /\ sqliteDb[u] = sqliteDb0[u]

\* C18: when a second run without any I/O failure follows a first run
\* without any I/O failure, every destination table ends the second run
\* with the rows it held after the first.
C18_Idempotent ==
    ( /\ prior = "clean"
      /\ pc = "terminated" /\ goodbye
      /\ failedIO = {} /\ ~ catalogError /\ faults = 0 )
        => \A t \in Tables : sqliteDb[t] = sqliteDb0[t]

\* C18 witness: a second run without failure has ended and the destination
\* holds rows.
C18_Witness ==
    /\ prior = "clean"
    /\ pc = "terminated" /\ goodbye
    /\ failedIO = {} /\ ~ catalogError /\ faults = 0
    /\ \E t \in Tables : sqliteDb[t] # EmptyBag

====
